---- MODULE Spec2Model ----
(***************************************************************************)
(* Assignment integrity of the time-tracking backend: the employees,       *)
(* projects and tasks collections and the service functions that keep the  *)
(* employee <-> project <-> task membership links.                         *)
(*                                                                         *)
(* Time window submissions, the bulk update of their rates and the         *)
(* project-time report are modelled on the same collections.               *)
(*                                                                         *)
(* Every service call is one action; add_time_window is also given as one  *)
(* step per awaited read, for the runs where requests interleave.          *)
(* A membership list (project.employees, task.employees) is read by the    *)
(* services only through `in`, set() and $pull, so it is kept as a set;    *)
(* employee.projects is kept as a list because $addToSet / $pull are what  *)
(* keep it duplicate free.                                                 *)
(***************************************************************************)
EXTENDS Integers, Sequences, FiniteSets, TLC

\* ---------------------------------------------------------------- bounds
MaxEmployees == 2
MaxProjects == 1
MaxTasks == 1
MaxWindows == 2

EmployeeNames == <<"e1", "e2", "e3", "e4">>
ProjectNames == <<"p1", "p2", "p3", "p4">>
TaskNames == <<"t1", "t2", "t3", "t4">>
WindowNames == <<"w1", "w2", "w3", "w4">>
EmailNames == <<"a@x", "b@x", "c@x", "d@x", "e@x">>

EmployeeIds == {EmployeeNames[i] : i \in 1..MaxEmployees}
ProjectIds == {ProjectNames[i] : i \in 1..MaxProjects}
TaskIds == {TaskNames[i] : i \in 1..MaxTasks}

\* ---------------------------------------------------------------- values
\* Optional[T]: None, or a value
None == [isNone |-> TRUE]
Some(v) == [isNone |-> FALSE, v |-> v]
IsNone(o) == o.isNone

\* the null a "$set" stores for a field that the request sets to null: in a
\* string field, and in a list field
Null == "null"

Wildcard == "*"

\* ProjectPayroll: Dict[str, Payroll]; keys are employee ids or '*'
PayrollOver(keys, rate) == [k \in keys |-> [billRate |-> rate]]
\* payrolls of the project requests: any keys, one rate
KeyedPayrolls == {PayrollOver(K, 100) : K \in SUBSET (EmployeeIds \cup {Wildcard})}
\* the payroll of a request that is about membership only
PlainPayrolls == {PayrollOver({Wildcard}, 100)}
\* every payroll over two rates
AllPayrolls == UNION {[K -> [billRate : {50, 100}]] : K \in SUBSET (EmployeeIds \cup {Wildcard})}

\* outcomes of a service call
Ok == "ok"
NotFound == "None"
ErrInactive == "ValueError: employee is either deactivated or does not exist"
ErrPayroll == "ValueError: cannot set payroll for employee not assigned to the project"
ErrNoData == "ValueError: no update data provided"
ErrEmailExists == "ValueError: employee with this email already exists"
ErrAlreadyDeactivated == "ValueError: employee is already deactivated"
ErrNoProject == "ValueError: project does not exist"
ErrTaskEmployee == "ValueError: employee not assigned to the parent project"
ErrEmployeeNotActive == "ValueError: Employee is not active or does not exist."
ErrProjectArchived == "ValueError: Project does not exist or is archived."
ErrNotInProject == "ValueError: Employee is not assigned to this project."
ErrNoTask == "ValueError: Task does not exist."
ErrNotInTask == "ValueError: Employee is not assigned to this task."
\* the pydantic ValidationError of ProjectInDB(**doc) or TaskInDB(**doc)
ValidationError == "ValidationError: input should be a valid list or string"
ErrInvalidToken == "ValueError: Invalid or expired activation token."
ErrNoFilter == "ValueError: Either employee_id or project_id must be provided."
TypeError == "TypeError: 'async for' requires an object with __aiter__ method, got list"
True == "True"
False == "False"

\* ---------------------------------------------------------------- state
\* the four collections; inflight is the add_time_window call that is waiting
\* at an await, with the position it has reached
VARIABLES employees, projects, tasks, time_windows, inflight, uuid, last

vars == <<employees, projects, tasks, time_windows, inflight, uuid, last>>

\* ---------------------------------------------------------------- helpers
Range(s) == {s[i] : i \in 1..Len(s)}

\* a $push in the place of the $addToSet: x is appended in every case
AddToSet_Push(list, x) == Append(list, x)

\* MongoDB {"$addToSet": {field: x}} on a list
AddToSet(list, x) == IF x \in Range(list) THEN list ELSE Append(list, x)

\* a $pull that names a field the document does not have: nothing is removed
Pull_WrongField(list, x) == list

\* MongoDB {"$pull": {field: x}} on a list
Pull(list, x) == SelectSeq(list, LAMBDA y : y # x)

\* _validate_payroll without the `continue` for the wildcard key
PayrollKeysValid_NoWildcard(payroll_dict, keys, assigned_employee_ids) ==
    \A employee_id \in keys : employee_id \in assigned_employee_ids

\* dict keys iterated by _validate_payroll, in some order
RECURSIVE PayrollKeysValid(_, _, _)
PayrollKeysValid(payroll_dict, keys, assigned_employee_ids) ==
    IF keys = {} THEN TRUE
    ELSE LET employee_id == CHOOSE k \in keys : TRUE
         IN IF employee_id = Wildcard
              THEN PayrollKeysValid(payroll_dict, keys \ {employee_id}, assigned_employee_ids)
            ELSE IF employee_id \notin assigned_employee_ids
              THEN FALSE
            ELSE PayrollKeysValid(payroll_dict, keys \ {employee_id}, assigned_employee_ids)

\* TRUE when _validate_payroll returns, FALSE when it raises ValueError
ValidatePayroll(payroll, assigned_employee_ids) ==
    IF IsNone(payroll) THEN TRUE
    ELSE PayrollKeysValid(payroll.v, DOMAIN payroll.v, assigned_employee_ids)

\* TRUE when _validate_active_employees returns, FALSE when it raises
ValidateActiveEmployees(emps, employee_ids) ==
    \A employee_id \in employee_ids :
        /\ employee_id \in DOMAIN emps
        /\ ~emps[employee_id].deactivated_at

\* _sync_employee_projects with update_one in place of update_many
SyncEmployeeProjects_UpdateOne(emps, project_id, added_ids, removed_ids) ==
    LET hitAdd == IF added_ids \cap DOMAIN emps = {} THEN {}
                  ELSE {CHOOSE e \in added_ids \cap DOMAIN emps : TRUE}
        hitRemove == IF removed_ids \cap DOMAIN emps = {} THEN {}
                     ELSE {CHOOSE e \in removed_ids \cap DOMAIN emps : TRUE}
        afterAdd == [e \in DOMAIN emps |->
                       IF e \in hitAdd
                         THEN [emps[e] EXCEPT !.projects = AddToSet(@, project_id)]
                         ELSE emps[e]]
    IN [e \in DOMAIN emps |->
          IF e \in hitRemove
            THEN [afterAdd[e] EXCEPT !.projects = Pull(@, project_id)]
            ELSE afterAdd[e]]

\* a synchronizer whose update of an empty id list selects every employee
SyncEmployeeProjects_EmptySelectsAll(emps, project_id, added_ids, removed_ids) ==
    LET afterAdd == [e \in DOMAIN emps |->
                       IF added_ids = {} \/ e \in added_ids
                         THEN [emps[e] EXCEPT !.projects = AddToSet(@, project_id)]
                         ELSE emps[e]]
    IN [e \in DOMAIN emps |->
          IF removed_ids # {} /\ e \in removed_ids
            THEN [afterAdd[e] EXCEPT !.projects = Pull(@, project_id)]
            ELSE afterAdd[e]]

\* the employees collection after _sync_employee_projects
SyncEmployeeProjects(emps, project_id, added_ids, removed_ids) ==
    LET afterAdd == [e \in DOMAIN emps |->
                       IF added_ids # {} /\ e \in added_ids
                         THEN [emps[e] EXCEPT !.projects = AddToSet(@, project_id)]
                         ELSE emps[e]]
    IN [e \in DOMAIN emps |->
          IF removed_ids # {} /\ e \in removed_ids
            THEN [afterAdd[e] EXCEPT !.projects = Pull(@, project_id)]
            ELSE afterAdd[e]]

\* the collections _sync_employee_projects writes to, one entry per
\* update_many it issues
SyncWrites(added_ids, removed_ids) ==
    (IF added_ids # {} THEN <<"employees">> ELSE <<>>)
        \o (IF removed_ids # {} THEN <<"employees">> ELSE <<>>)

\* uuid.uuid4() of a new document of a collection
NewId(names, coll) == names[uuid[coll] + 1]

\* ---------------------------------------------------------------- Init
Init ==
    /\ employees = <<>>
    /\ projects = <<>>
    /\ tasks = <<>>
    /\ time_windows = <<>>
    /\ inflight = None
    /\ uuid = [employees |-> 0, projects |-> 0, tasks |-> 0, time_windows |-> 0]
    /\ last = [op |-> "init"]

\* ------------------------------------------------------ employee_service
\* employee_in: [email]. The activation token is a uuid4: a string that no
\* other employee has, written here as the new employee's id.
create_employee(employee_in) ==
    /\ uuid.employees < MaxEmployees
    /\ IF \E e \in DOMAIN employees : employees[e].email = employee_in.email
         THEN /\ last' = [op |-> "create_employee", result |-> ErrEmailExists]
              /\ UNCHANGED <<employees, uuid>>
         ELSE LET id == NewId(EmployeeNames, "employees")
              IN /\ employees' = employees @@
                       (id :> [email |-> employee_in.email, projects |-> <<>>,
                               systemPermissions |-> <<>>,
                               hashed_password |-> None, activation_token |-> Some(id),
                               deactivated_at |-> FALSE, is_active |-> FALSE])
                 /\ uuid' = [uuid EXCEPT !.employees = @ + 1]
                 /\ last' = [op |-> "create_employee", id |-> id, result |-> Ok]
    /\ UNCHANGED <<projects, tasks, time_windows, inflight>>

\* update_employee without the check of an empty update_data
update_employee_NoEmptyCheck(employee_id, employee_in) ==
    /\ employees' = [e \in DOMAIN employees |->
                        IF e = employee_id
                          THEN [f \in DOMAIN employees[e] |->
                                  IF f \in employee_in.fields_set
                                    THEN employee_in[f].v
                                  ELSE employees[e][f]]
                        ELSE employees[e]]
    /\ last' = [op |-> "update_employee", id |-> employee_id,
                employee_in |-> employee_in,
                result |-> IF employee_id \in DOMAIN employees THEN Ok
                           ELSE NotFound]
    /\ UNCHANGED <<projects, tasks, time_windows, inflight, uuid>>

\* employee_in: [fields_set, email], email Optional. The $set goes to the
\* document with the id, if there is one; the result is get_employee's.
update_employee(employee_id, employee_in) ==
    /\ IF employee_in.fields_set = {}
         THEN /\ last' = [op |-> "update_employee", id |-> employee_id,
                          employee_in |-> employee_in, result |-> ErrNoData]
              /\ UNCHANGED employees
         ELSE /\ employees' = [e \in DOMAIN employees |->
                                 IF e = employee_id
                                   THEN [f \in DOMAIN employees[e] |->
                                           IF f \in employee_in.fields_set
                                             THEN employee_in[f].v
                                           ELSE employees[e][f]]
                                 ELSE employees[e]]
              /\ last' = [op |-> "update_employee", id |-> employee_id,
                          employee_in |-> employee_in,
                          result |-> IF employee_id \in DOMAIN employees THEN Ok
                                     ELSE NotFound]
    /\ UNCHANGED <<projects, tasks, time_windows, inflight, uuid>>

deactivate_employee(employee_id) ==
    /\ IF employee_id \notin DOMAIN employees
         THEN /\ last' = [op |-> "deactivate_employee", id |-> employee_id,
                          result |-> NotFound, writes |-> <<>>]
              /\ UNCHANGED <<employees, projects>>
       ELSE IF employees[employee_id].deactivated_at
         THEN /\ last' = [op |-> "deactivate_employee", id |-> employee_id,
                          result |-> ErrAlreadyDeactivated, writes |-> <<>>]
              /\ UNCHANGED <<employees, projects>>
       ELSE LET employee == employees[employee_id]
            IN /\ projects' = [p \in DOMAIN projects |->
                     IF employee.projects # <<>> /\ p \in Range(employee.projects)
                       THEN [projects[p] EXCEPT !.employees = @ \ {employee_id}]
                       ELSE projects[p]]
               /\ employees' = [employees EXCEPT ![employee_id] =
                     [@ EXCEPT !.deactivated_at = TRUE, !.is_active = FALSE]]
               /\ last' = [op |-> "deactivate_employee", id |-> employee_id, result |-> Ok,
                           writes |-> (IF employee.projects # <<>> THEN <<"projects">>
                                       ELSE <<>>) \o <<"employees">>]
    /\ UNCHANGED <<tasks, time_windows, inflight, uuid>>

\* a request model that keeps the fields it does not declare
EmployeeUpdate_AllowExtra(body) == body

\* the request model parsed from a body: fields it does not declare are
\* ignored, and are not among the fields set. Of the declared fields (name,
\* email, title) the documents here hold email.
EmployeeUpdate(body) ==
    [f \in DOMAIN body |->
        IF f = "fields_set" THEN body.fields_set \cap {"email"}
        ELSE IF f = "email" THEN body[f]
        ELSE None]

\* PUT /v1/employee/{id}: the body parsed as an EmployeeUpdate
update_employee_route(employee_id, body) ==
    update_employee(employee_id, EmployeeUpdate(body))

\* the place of the first record of the computer in the list, 0 if none
ExistingPermissionIndex(systemPermissions, computer) ==
    LET found == {i \in 1..Len(systemPermissions) :
                     systemPermissions[i].computer = computer}
    IN IF found = {} THEN 0 ELSE CHOOSE i \in found : \A j \in found : i <= j

\* {"$set": {"systemPermissions.<index>": ...}}, or {"$push": ...} without index
ApplyPermissions(systemPermissions, index, permissions_in) ==
    IF index # 0 THEN [systemPermissions EXCEPT ![index] = permissions_in]
    ELSE Append(systemPermissions, permissions_in)

\* permissions_in: [computer, permissions]; a call that no other request
\* interleaves with
update_system_permissions(employee_id, permissions_in) ==
    /\ IF employee_id \notin DOMAIN employees
         THEN /\ last' = [op |-> "update_system_permissions", id |-> employee_id,
                          permissions_in |-> permissions_in, result |-> NotFound]
              /\ UNCHANGED employees
         ELSE LET employee == employees[employee_id]
                  index == ExistingPermissionIndex(employee.systemPermissions,
                                                   permissions_in.computer)
              IN /\ employees' = [employees EXCEPT ![employee_id].systemPermissions =
                                      ApplyPermissions(@, index, permissions_in)]
                 /\ last' = [op |-> "update_system_permissions", id |-> employee_id,
                             permissions_in |-> permissions_in, result |-> Ok]
    /\ UNCHANGED <<projects, tasks, time_windows, inflight, uuid>>

\* The same call, one step per await: the read of the employee, then the
\* update_one computed from the document that was read.
update_system_permissions_get_employee(employee_id, permissions_in) ==
    /\ inflight = None
    /\ IF employee_id \notin DOMAIN employees
         THEN /\ last' = [op |-> "update_system_permissions", id |-> employee_id,
                          permissions_in |-> permissions_in, result |-> NotFound]
              /\ UNCHANGED inflight
         ELSE /\ inflight' = Some([employee_id |-> employee_id,
                                   permissions_in |-> permissions_in,
                                   employee |-> employees[employee_id],
                                   pc |-> "update_permissions"])
              /\ UNCHANGED last
    /\ UNCHANGED <<employees, projects, tasks, time_windows, uuid>>

update_system_permissions_update_one ==
    /\ ~IsNone(inflight)
    /\ inflight.v.pc = "update_permissions"
    /\ LET call == inflight.v
           index == ExistingPermissionIndex(call.employee.systemPermissions,
                                            call.permissions_in.computer)
       IN /\ employees' = [employees EXCEPT ![call.employee_id].systemPermissions =
                               ApplyPermissions(@, index, call.permissions_in)]
          /\ last' = [op |-> "update_system_permissions", id |-> call.employee_id,
                      permissions_in |-> call.permissions_in, result |-> Ok]
    /\ inflight' = None
    /\ UNCHANGED <<projects, tasks, time_windows, uuid>>

\* the documents find_one({"activation_token": token, "is_active": False}) matches
TokenMatch(token) ==
    {e \in DOMAIN employees :
        employees[e].activation_token = Some(token) /\ ~employees[e].is_active}

\* password_data: [token, password]
activate_employee_account(password_data) ==
    /\ IF TokenMatch(password_data.token) = {}
         THEN /\ last' = [op |-> "activate_employee_account",
                          password_data |-> password_data, result |-> ErrInvalidToken]
              /\ UNCHANGED employees
         ELSE LET id == CHOOSE e \in TokenMatch(password_data.token) : TRUE
              IN /\ employees' = [employees EXCEPT ![id] =
                       [@ EXCEPT !.hashed_password =
                                     Some(<<"hash", password_data.password>>),
                                 !.is_active = TRUE,
                                 !.activation_token = None]]
                 /\ last' = [op |-> "activate_employee_account",
                             password_data |-> password_data, id |-> id, result |-> Ok]
    /\ UNCHANGED <<projects, tasks, time_windows, inflight, uuid>>

\* ------------------------------------------------------- project_service
\* project_in: [employees, payroll, name]; at most limit projects are created
create_project_up_to(limit, project_in) ==
    /\ uuid.projects < limit
    /\ IF ~ValidateActiveEmployees(employees, project_in.employees)
         THEN /\ last' = [op |-> "create_project", project_in |-> project_in,
                          result |-> ErrInactive, writes |-> <<>>]
              /\ UNCHANGED <<employees, projects, uuid>>
       ELSE IF ~ValidatePayroll(Some(project_in.payroll), project_in.employees)
         THEN /\ last' = [op |-> "create_project", project_in |-> project_in,
                          result |-> ErrPayroll, writes |-> <<>>]
              /\ UNCHANGED <<employees, projects, uuid>>
       ELSE LET id == NewId(ProjectNames, "projects")
            IN /\ projects' = projects @@
                     (id :> [employees |-> project_in.employees,
                             payroll |-> project_in.payroll,
                             name |-> project_in.name,
                             archived |-> FALSE])
               /\ uuid' = [uuid EXCEPT !.projects = @ + 1]
               /\ employees' = IF project_in.employees # {}
                                 THEN SyncEmployeeProjects(employees, id, project_in.employees, {})
                                 ELSE employees
               /\ last' = [op |-> "create_project", project_in |-> project_in,
                           id |-> id, result |-> Ok,
                           writes |-> <<"projects">> \o
                               (IF project_in.employees # {}
                                  THEN SyncWrites(project_in.employees, {})
                                ELSE <<>>)]
    /\ UNCHANGED <<tasks, time_windows, inflight>>

create_project(project_in) == create_project_up_to(MaxProjects, project_in)

\* model_dump(exclude_unset=True) applied as {"$set": update_data}
SetFields(doc, patch) ==
    [f \in DOMAIN doc |->
        IF f \notin patch.fields_set THEN doc[f]
        ELSE IF ~IsNone(patch[f]) THEN patch[f].v
        ELSE IF f = "employees" THEN {Null}
        ELSE Null]

\* ProjectInDB(**doc) and TaskInDB(**doc) accept the stored document: its
\* name is a string and its employees a list
Readable(doc) == doc.name # Null /\ doc.employees # {Null}

\* the stored list, whatever the request says
FinalEmployeeList_Stored(project_in, current_project) == current_project.employees

\* the list the payroll of an update is validated against
FinalEmployeeList(project_in, current_project) ==
    IF ~IsNone(project_in.employees) THEN project_in.employees.v
    ELSE current_project.employees

\* project_in: [fields_set, name, employees, payroll, archived], each field Optional
update_project(project_id, project_in) ==
    /\ IF project_id \notin DOMAIN projects
         THEN /\ last' = [op |-> "update_project", id |-> project_id, result |-> NotFound,
                          project_in |-> project_in, writes |-> <<>>]
              /\ UNCHANGED <<employees, projects>>
       ELSE IF ~Readable(projects[project_id])
         THEN /\ last' = [op |-> "update_project", id |-> project_id,
                          result |-> ValidationError,
                          project_in |-> project_in, writes |-> <<>>]
              /\ UNCHANGED <<employees, projects>>
       ELSE
         LET current_project == projects[project_id]
             final_employee_list == FinalEmployeeList(project_in, current_project)
             added_employees ==
                 IF ~IsNone(project_in.employees)
                   THEN project_in.employees.v \ current_project.employees ELSE {}
             removed_employees ==
                 IF ~IsNone(project_in.employees)
                   THEN current_project.employees \ project_in.employees.v ELSE {}
             synced ==
                 IF ~IsNone(project_in.employees)
                   THEN SyncEmployeeProjects(employees, project_id,
                                             added_employees, removed_employees)
                   ELSE employees
             sync_writes ==
                 IF ~IsNone(project_in.employees)
                   THEN SyncWrites(added_employees, removed_employees) ELSE <<>>
             rec(result, writes) ==
                 [op |-> "update_project", id |-> project_id, result |-> result,
                  project_in |-> project_in,
                  added |-> added_employees, removed |-> removed_employees,
                  writes |-> writes]
         IN IF ~IsNone(project_in.employees)
               /\ ~ValidateActiveEmployees(employees, project_in.employees.v)
              THEN /\ last' = rec(ErrInactive, <<>>)
                   /\ UNCHANGED <<employees, projects>>
            ELSE IF ~IsNone(project_in.payroll)
                    /\ ~ValidatePayroll(project_in.payroll, final_employee_list)
              THEN /\ employees' = synced
                   /\ last' = rec(ErrPayroll, sync_writes)
                   /\ UNCHANGED projects
            ELSE IF project_in.fields_set = {}
              THEN /\ employees' = synced
                   /\ last' = rec(ErrNoData, sync_writes)
                   /\ UNCHANGED projects
            ELSE /\ employees' = synced
                 /\ projects' = [projects EXCEPT ![project_id] = SetFields(@, project_in)]
                 /\ last' = rec(IF Readable(SetFields(current_project, project_in))
                                  THEN Ok ELSE ValidationError,
                                sync_writes \o <<"projects">>)
    /\ UNCHANGED <<tasks, time_windows, inflight, uuid>>

\* The same call, one step per await. current_project is the document read
\* by the first step; the later steps compute from it, whatever the
\* collections hold by then.
update_project_get_project(project_id, project_in) ==
    /\ inflight = None
    /\ IF project_id \notin DOMAIN projects
         THEN /\ last' = [op |-> "update_project", id |-> project_id, result |-> NotFound,
                          project_in |-> project_in, writes |-> <<>>]
              /\ UNCHANGED inflight
         ELSE /\ inflight' = Some([project_id |-> project_id, project_in |-> project_in,
                                   current_project |-> projects[project_id],
                                   pc |-> IF ~IsNone(project_in.employees)
                                            THEN "validate_active_employees"
                                          ELSE "update_one"])
              /\ UNCHANGED last
    /\ UNCHANGED <<employees, projects, tasks, time_windows, uuid>>

\* the added and removed ids of the call in flight, from the document it read
AddedEmployees(call) ==
    IF ~IsNone(call.project_in.employees)
      THEN call.project_in.employees.v \ call.current_project.employees ELSE {}

RemovedEmployees(call) ==
    IF ~IsNone(call.project_in.employees)
      THEN call.current_project.employees \ call.project_in.employees.v ELSE {}

\* the outcome of the call in flight
UpdateProjectResult(call, result, writes) ==
    [op |-> "update_project", id |-> call.project_id, result |-> result,
     project_in |-> call.project_in,
     added |-> AddedEmployees(call), removed |-> RemovedEmployees(call),
     writes |-> writes]

update_project_validate_active_employees ==
    /\ ~IsNone(inflight)
    /\ inflight.v.pc = "validate_active_employees"
    /\ IF ~ValidateActiveEmployees(employees, inflight.v.project_in.employees.v)
         THEN /\ last' = UpdateProjectResult(inflight.v, ErrInactive, <<>>)
              /\ inflight' = None
         ELSE /\ inflight' = Some([inflight.v EXCEPT !.pc = "sync_employee_projects"])
              /\ UNCHANGED last
    /\ UNCHANGED <<employees, projects, tasks, time_windows, uuid>>

update_project_sync_employee_projects ==
    /\ ~IsNone(inflight)
    /\ inflight.v.pc = "sync_employee_projects"
    /\ employees' = SyncEmployeeProjects(employees, inflight.v.project_id,
                                         AddedEmployees(inflight.v),
                                         RemovedEmployees(inflight.v))
    /\ inflight' = Some([inflight.v EXCEPT !.pc = "update_one"])
    /\ UNCHANGED <<projects, tasks, time_windows, uuid, last>>

\* the payroll validation, the empty-patch check, the $set on the project,
\* and the get_project whose document, or None, is returned
update_project_update_one ==
    /\ ~IsNone(inflight)
    /\ inflight.v.pc = "update_one"
    /\ LET call == inflight.v
           sync_writes == IF ~IsNone(call.project_in.employees)
                            THEN SyncWrites(AddedEmployees(call), RemovedEmployees(call))
                          ELSE <<>>
       IN IF ~IsNone(call.project_in.payroll)
             /\ ~ValidatePayroll(call.project_in.payroll,
                                 FinalEmployeeList(call.project_in, call.current_project))
            THEN /\ last' = UpdateProjectResult(call, ErrPayroll, sync_writes)
                 /\ UNCHANGED projects
          ELSE IF call.project_in.fields_set = {}
            THEN /\ last' = UpdateProjectResult(call, ErrNoData, sync_writes)
                 /\ UNCHANGED projects
          ELSE IF call.project_id \notin DOMAIN projects
            THEN /\ last' = UpdateProjectResult(call, NotFound,
                                                sync_writes \o <<"projects">>)
                 /\ UNCHANGED projects
          ELSE /\ projects' = [projects EXCEPT ![call.project_id] =
                                  SetFields(@, call.project_in)]
               /\ last' = UpdateProjectResult(call, Ok, sync_writes \o <<"projects">>)
    /\ inflight' = None
    /\ UNCHANGED <<employees, tasks, time_windows, uuid>>

delete_project(project_id) ==
    /\ IF project_id \in DOMAIN projects
         THEN LET project_to_delete == projects[project_id]
              IN /\ employees' = IF project_to_delete.employees # {}
                                   THEN SyncEmployeeProjects(employees, project_id, {},
                                                             project_to_delete.employees)
                                   ELSE employees
                 /\ projects' = [p \in DOMAIN projects \ {project_id} |-> projects[p]]
                 /\ last' = [op |-> "delete_project", id |-> project_id, result |-> True,
                             writes |-> (IF project_to_delete.employees # {}
                                           THEN SyncWrites({}, project_to_delete.employees)
                                         ELSE <<>>) \o <<"projects">>]
         ELSE /\ last' = [op |-> "delete_project", id |-> project_id, result |-> False,
                          writes |-> <<"projects">>]
              /\ UNCHANGED <<employees, projects>>
    /\ UNCHANGED <<tasks, time_windows, inflight, uuid>>

\* a direct call of _validate_payroll
validate_payroll(payroll, assigned_employee_ids) ==
    /\ last' = [op |-> "_validate_payroll", payroll |-> payroll,
                assigned_employee_ids |-> assigned_employee_ids,
                result |-> IF ValidatePayroll(payroll, assigned_employee_ids)
                             THEN Ok ELSE ErrPayroll]
    /\ UNCHANGED <<employees, projects, tasks, time_windows, inflight, uuid>>

\* a direct call of _sync_employee_projects
sync_employee_projects(project_id, added_ids, removed_ids) ==
    /\ employees' = SyncEmployeeProjects(employees, project_id, added_ids, removed_ids)
    /\ last' = [op |-> "_sync_employee_projects", project_id |-> project_id,
                added_ids |-> added_ids, removed_ids |-> removed_ids]
    /\ UNCHANGED <<projects, tasks, time_windows, inflight, uuid>>

\* ---------------------------------------------------------- task_service
\* _validate_task_data without the loop over the task's employees
ValidateTaskData_ProjectOnly(project_id, employee_ids) ==
    IF project_id \notin DOMAIN projects THEN ErrNoProject ELSE Ok

\* Ok when _validate_task_data returns, else the ValueError it raises
ValidateTaskData(project_id, employee_ids) ==
    IF project_id \notin DOMAIN projects THEN ErrNoProject
    ELSE IF ~Readable(projects[project_id]) THEN ValidationError
    ELSE IF employee_ids \notin {{}, {Null}}
            /\ \E employee_id \in employee_ids :
                  employee_id \notin projects[project_id].employees
      THEN ErrTaskEmployee
    ELSE Ok

\* task_in: [projectId, employees, name]
create_task(task_in) ==
    /\ uuid.tasks < MaxTasks
    /\ LET check == ValidateTaskData(task_in.projectId, task_in.employees)
           id == NewId(TaskNames, "tasks")
       IN IF check # Ok
            THEN /\ last' = [op |-> "create_task", task_in |-> task_in, result |-> check]
                 /\ UNCHANGED <<tasks, uuid>>
            ELSE /\ tasks' = tasks @@ (id :> task_in)
                 /\ uuid' = [uuid EXCEPT !.tasks = @ + 1]
                 /\ last' = [op |-> "create_task", task_in |-> task_in, id |-> id,
                             result |-> Ok]
    /\ UNCHANGED <<employees, projects, time_windows, inflight>>

\* task_in: [fields_set, projectId, employees, name], each field Optional
update_task(task_id, task_in) ==
    /\ IF task_id \notin DOMAIN tasks
         THEN /\ last' = [op |-> "update_task", id |-> task_id, task_in |-> task_in,
                          result |-> NotFound]
              /\ UNCHANGED tasks
       ELSE IF ~Readable(tasks[task_id])
         THEN /\ last' = [op |-> "update_task", id |-> task_id, task_in |-> task_in,
                          result |-> ValidationError]
              /\ UNCHANGED tasks
       ELSE
         LET current_task == tasks[task_id]
             final_task_data == SetFields(current_task, task_in)
             check == ValidateTaskData(final_task_data.projectId, final_task_data.employees)
             rec(result) == [op |-> "update_task", id |-> task_id, task_in |-> task_in,
                             result |-> result]
         IN IF check # Ok
              THEN /\ last' = rec(check)
                   /\ UNCHANGED tasks
            ELSE IF task_in.fields_set = {}
              THEN /\ last' = rec(ErrNoData)
                   /\ UNCHANGED tasks
            ELSE /\ tasks' = [tasks EXCEPT ![task_id] = SetFields(@, task_in)]
                 /\ last' = rec(IF Readable(final_task_data) THEN Ok ELSE ValidationError)
    /\ UNCHANGED <<employees, projects, time_windows, inflight, uuid>>

\* delete_task that reports the acknowledgement of the delete
delete_task_Acknowledged(task_id) ==
    /\ tasks' = [t \in DOMAIN tasks \ {task_id} |-> tasks[t]]
    /\ last' = [op |-> "delete_task", id |-> task_id, result |-> True]
    /\ UNCHANGED <<employees, projects, time_windows, inflight, uuid>>

delete_task(task_id) ==
    /\ IF task_id \in DOMAIN tasks
         THEN /\ tasks' = [t \in DOMAIN tasks \ {task_id} |-> tasks[t]]
              /\ last' = [op |-> "delete_task", id |-> task_id, result |-> True]
         ELSE /\ last' = [op |-> "delete_task", id |-> task_id, result |-> False]
              /\ UNCHANGED tasks
    /\ UNCHANGED <<employees, projects, time_windows, inflight, uuid>>

\* ----------------------------------------------------------- task_router
HTTP_200_OK == 200
HTTP_201_CREATED == 201
HTTP_400_BAD_REQUEST == 400
HTTP_404_NOT_FOUND == 404

\* POST /v1/task: the status of the response for an outcome of create_task
add_task(result) ==
    IF result = Ok THEN HTTP_201_CREATED
    ELSE HTTP_400_BAD_REQUEST

\* PUT /v1/task/{task_id}: the status for an outcome of update_task
task_router_update_task(result) ==
    IF result = NotFound THEN HTTP_404_NOT_FOUND
    ELSE IF result = Ok THEN HTTP_200_OK
    ELSE HTTP_400_BAD_REQUEST

\* ---------------------------------------------------------- employee_router
HTTP_409_CONFLICT == 409

\* a deactivation route that answers a ValueError as the other routes do
deactivate_employee_route_BadRequest(result) ==
    IF result = NotFound THEN HTTP_404_NOT_FOUND
    ELSE IF result = Ok THEN HTTP_200_OK
    ELSE HTTP_400_BAD_REQUEST

\* POST /v1/employee/{employee_id}/deactivate: the status for an outcome of
\* deactivate_employee
deactivate_employee_route(result) ==
    IF result = NotFound THEN HTTP_404_NOT_FOUND
    ELSE IF result = Ok THEN HTTP_200_OK
    ELSE HTTP_409_CONFLICT

\* -------------------------------------------------- time_tracking_service
\* step 1 of _validate_time_window: the employee exists and is not deactivated
CheckEmployee(employee_id) ==
    IF employee_id \notin DOMAIN employees \/ employees[employee_id].deactivated_at
      THEN ErrEmployeeNotActive
    ELSE Ok

\* step 2: the project exists, is not archived and lists the employee
CheckProject(window_in, employee_id) ==
    IF window_in.projectId \notin DOMAIN projects
       \/ projects[window_in.projectId].archived
      THEN ErrProjectArchived
    ELSE IF employee_id \notin projects[window_in.projectId].employees
      THEN ErrNotInProject
    ELSE Ok

\* step 3: the task exists and lists the employee
CheckTask(window_in, employee_id) ==
    IF window_in.taskId \notin DOMAIN tasks THEN ErrNoTask
    ELSE IF employee_id \notin tasks[window_in.taskId].employees THEN ErrNotInTask
    ELSE Ok

\* _validate_time_window with the task looked up before the project
ValidateTimeWindow_TaskFirst(window_in, employee_id) ==
    IF CheckEmployee(employee_id) # Ok THEN CheckEmployee(employee_id)
    ELSE IF CheckTask(window_in, employee_id) # Ok THEN CheckTask(window_in, employee_id)
    ELSE CheckProject(window_in, employee_id)

\* Ok when _validate_time_window returns, else the first ValueError it raises
ValidateTimeWindow(window_in, employee_id) ==
    IF CheckEmployee(employee_id) # Ok THEN CheckEmployee(employee_id)
    ELSE IF CheckProject(window_in, employee_id) # Ok
      THEN CheckProject(window_in, employee_id)
    ELSE CheckTask(window_in, employee_id)

\* datetime.fromtimestamp(ms / 1000.0): whole seconds and microseconds
FromTimestamp(ms) == [second |-> ms \div 1000, microsecond |-> (ms % 1000) * 1000]

\* the order of two datetime values
DatetimeLte(a, b) ==
    \/ a.second < b.second
    \/ a.second = b.second /\ a.microsecond <= b.microsecond

\* a translation that adds the offset
Translated_Added(t, timezoneOffset) == t + timezoneOffset

\* start_translated / end_translated of a submitted instant
Translated(t, timezoneOffset) == t - timezoneOffset

\* the fields of a request body that TimeWindowBase declares
TimeWindowBaseFields == {"start", "end", "timezoneOffset", "projectId", "taskId"}

\* a request model that keeps the fields it does not declare
TimeWindowCreate_AllowExtra(body) == body

\* the request model parsed from a body: fields it does not declare are ignored
TimeWindowCreate(body) ==
    [f \in DOMAIN body \cap TimeWindowBaseFields |-> body[f]]

\* db_window: **window_in.model_dump(), the owner, and the derived times; a
\* rate that no keyword supplies is None
TimeWindowInDB(window_in, employee_id) ==
    [employeeId |-> employee_id,
     projectId |-> window_in.projectId,
     taskId |-> window_in.taskId,
     start |-> window_in.start,
     end |-> window_in.end,
     timezoneOffset |-> window_in.timezoneOffset,
     startTime |-> FromTimestamp(window_in.start),
     endTime |-> FromTimestamp(window_in.end),
     startTranslated |-> Translated(window_in.start, window_in.timezoneOffset),
     endTranslated |-> Translated(window_in.end, window_in.timezoneOffset),
     billRate |-> IF "billRate" \in DOMAIN window_in THEN window_in.billRate ELSE None,
     payRate |-> IF "payRate" \in DOMAIN window_in THEN window_in.payRate ELSE None]

\* add_time_window that inserts the document before it validates
add_time_window_InsertFirst(window_in, employee_id) ==
    /\ uuid.time_windows < MaxWindows
    /\ LET check == ValidateTimeWindow(window_in, employee_id)
           id == NewId(WindowNames, "time_windows")
       IN /\ time_windows' = time_windows @@ (id :> TimeWindowInDB(window_in, employee_id))
          /\ uuid' = [uuid EXCEPT !.time_windows = @ + 1]
          /\ last' = [op |-> "add_time_window", employee_id |-> employee_id,
                      window_in |-> window_in, result |-> check]
    /\ UNCHANGED <<employees, projects, tasks, inflight>>

\* window_in: [start, end, timezoneOffset, projectId, taskId]; a call that
\* no other request interleaves with
add_time_window(window_in, employee_id) ==
    /\ uuid.time_windows < MaxWindows
    /\ LET check == ValidateTimeWindow(window_in, employee_id)
           id == NewId(WindowNames, "time_windows")
       IN IF check # Ok
            THEN /\ last' = [op |-> "add_time_window", employee_id |-> employee_id,
                             window_in |-> window_in, result |-> check]
                 /\ UNCHANGED <<time_windows, uuid>>
            ELSE /\ time_windows' = time_windows @@
                       (id :> TimeWindowInDB(window_in, employee_id))
                 /\ uuid' = [uuid EXCEPT !.time_windows = @ + 1]
                 /\ last' = [op |-> "add_time_window", employee_id |-> employee_id,
                             window_in |-> window_in, result |-> Ok]
    /\ UNCHANGED <<employees, projects, tasks, inflight>>

\* POST /v1/time-entries: the body parsed as a TimeWindowCreate, submitted
\* for the authenticated employee
submit_time_window(body, employee_id) ==
    add_time_window(TimeWindowCreate(body), employee_id)

\* The same call, one step per read it awaits. A step that raises ends the
\* call; the others move it to its next await.
add_time_window_get_employee(window_in, employee_id) ==
    /\ uuid.time_windows < MaxWindows
    /\ inflight = None
    /\ IF CheckEmployee(employee_id) # Ok
         THEN /\ last' = [op |-> "add_time_window", employee_id |-> employee_id,
                          window_in |-> window_in, result |-> CheckEmployee(employee_id)]
              /\ UNCHANGED inflight
         ELSE /\ inflight' = Some([window_in |-> window_in, employee_id |-> employee_id,
                                   pc |-> "get_project"])
              /\ UNCHANGED last
    /\ UNCHANGED <<employees, projects, tasks, time_windows, uuid>>

add_time_window_get_project ==
    /\ ~IsNone(inflight)
    /\ inflight.v.pc = "get_project"
    /\ LET check == CheckProject(inflight.v.window_in, inflight.v.employee_id)
       IN IF check # Ok
            THEN /\ last' = [op |-> "add_time_window",
                             employee_id |-> inflight.v.employee_id,
                             window_in |-> inflight.v.window_in, result |-> check]
                 /\ inflight' = None
            ELSE /\ inflight' = Some([inflight.v EXCEPT !.pc = "get_task"])
                 /\ UNCHANGED last
    /\ UNCHANGED <<employees, projects, tasks, time_windows, uuid>>

add_time_window_get_task ==
    /\ ~IsNone(inflight)
    /\ inflight.v.pc = "get_task"
    /\ LET check == CheckTask(inflight.v.window_in, inflight.v.employee_id)
       IN IF check # Ok
            THEN /\ last' = [op |-> "add_time_window",
                             employee_id |-> inflight.v.employee_id,
                             window_in |-> inflight.v.window_in, result |-> check]
                 /\ inflight' = None
            ELSE /\ inflight' = Some([inflight.v EXCEPT !.pc = "insert_one"])
                 /\ UNCHANGED last
    /\ UNCHANGED <<employees, projects, tasks, time_windows, uuid>>

add_time_window_insert_one ==
    /\ ~IsNone(inflight)
    /\ inflight.v.pc = "insert_one"
    /\ LET id == NewId(WindowNames, "time_windows")
       IN /\ time_windows' = time_windows @@
                (id :> TimeWindowInDB(inflight.v.window_in, inflight.v.employee_id))
          /\ uuid' = [uuid EXCEPT !.time_windows = @ + 1]
          /\ last' = [op |-> "add_time_window", employee_id |-> inflight.v.employee_id,
                      window_in |-> inflight.v.window_in, result |-> Ok]
          /\ inflight' = None
    /\ UNCHANGED <<employees, projects, tasks>>

\* a filter of a query: absent, or the value a field must equal
Matches(filter, value) == IsNone(filter) \/ filter.v = value

\* the query of a bulk update that selects a window on either filter
UpdateQuery_Either(employee_id, project_id) ==
    {w \in DOMAIN time_windows :
        \/ ~IsNone(employee_id) /\ employee_id.v = time_windows[w].employeeId
        \/ ~IsNone(project_id) /\ project_id.v = time_windows[w].projectId}

\* the query of a bulk update: every supplied filter must match
UpdateQuery(employee_id, project_id) ==
    {w \in DOMAIN time_windows :
        /\ Matches(employee_id, time_windows[w].employeeId)
        /\ Matches(project_id, time_windows[w].projectId)}

\* {"$set": update_data.model_dump(exclude_unset=True)} applied to doc
SetWindowFields(doc, update_data) ==
    [f \in DOMAIN doc |-> IF f \in update_data.fields_set THEN update_data[f]
                          ELSE doc[f]]

\* a bulk update that goes to the collection without looking at its filters
update_time_windows_NoFilterCheck(update_data, employee_id, project_id) ==
    /\ IF update_data.fields_set = {}
         THEN /\ last' = [op |-> "update_time_windows", result |-> ErrNoData,
                          update_data |-> update_data,
                          employee_id |-> employee_id, project_id |-> project_id]
              /\ UNCHANGED time_windows
       ELSE LET query == UpdateQuery(employee_id, project_id)
            IN /\ time_windows' = [w \in DOMAIN time_windows |->
                                      IF w \in query
                                        THEN SetWindowFields(time_windows[w], update_data)
                                      ELSE time_windows[w]]
               /\ last' = [op |-> "update_time_windows", result |-> Ok,
                           update_data |-> update_data,
                           employee_id |-> employee_id, project_id |-> project_id,
                           modified_count |->
                               Cardinality({w \in query :
                                   SetWindowFields(time_windows[w], update_data)
                                       # time_windows[w]})]
    /\ UNCHANGED <<employees, projects, tasks, inflight, uuid>>

\* update_data: [fields_set, billRate, payRate], each field Optional;
\* employee_id and project_id are Optional filters. modified_count is the
\* number of documents the update changed.
update_time_windows(update_data, employee_id, project_id) ==
    /\ IF IsNone(employee_id) /\ IsNone(project_id)
         THEN /\ last' = [op |-> "update_time_windows", result |-> ErrNoFilter,
                          update_data |-> update_data,
                          employee_id |-> employee_id, project_id |-> project_id]
              /\ UNCHANGED time_windows
       ELSE IF update_data.fields_set = {}
         THEN /\ last' = [op |-> "update_time_windows", result |-> ErrNoData,
                          update_data |-> update_data,
                          employee_id |-> employee_id, project_id |-> project_id]
              /\ UNCHANGED time_windows
       ELSE LET query == UpdateQuery(employee_id, project_id)
            IN /\ time_windows' = [w \in DOMAIN time_windows |->
                                      IF w \in query
                                        THEN SetWindowFields(time_windows[w], update_data)
                                      ELSE time_windows[w]]
               /\ last' = [op |-> "update_time_windows", result |-> Ok,
                           update_data |-> update_data,
                           employee_id |-> employee_id, project_id |-> project_id,
                           modified_count |->
                               Cardinality({w \in query :
                                   SetWindowFields(time_windows[w], update_data)
                                       # time_windows[w]})]
    /\ UNCHANGED <<employees, projects, tasks, inflight, uuid>>

\* ------------------------------------------------------ analytics_service
MillisPerHour == 3600000

\* {"$ifNull": [x, d]}
IfNull(x, d) == IF IsNone(x) THEN d ELSE x.v

\* {"$sum": ...} over the documents S of a group, f[w] being the term of w
RECURSIVE Sum(_, _)
Sum(f, S) ==
    IF S = {} THEN 0
    ELSE LET w == CHOOSE x \in S : TRUE
         IN f[w] + Sum(f, S \ {w})

\* {"$round": [n / d, 0]}: the nearest integer, a tie going to the even one
Round(n, d) ==
    LET q == n \div d
        r == n % d
    IN IF 2 * r < d THEN q
       ELSE IF 2 * r > d THEN q + 1
       ELSE IF q % 2 = 0 THEN q
       ELSE q + 1

\* the $match stage: the ids of the windows it lets through
MatchStage(start, end, employee_id, project_id, task_id) ==
    {w \in DOMAIN time_windows :
        /\ DatetimeLte(FromTimestamp(start), time_windows[w].startTime)
        /\ DatetimeLte(time_windows[w].endTime, FromTimestamp(end))
        /\ Matches(employee_id, time_windows[w].employeeId)
        /\ Matches(project_id, time_windows[w].projectId)
        /\ Matches(task_id, time_windows[w].taskId)}

\* the $group stage, by projectId. A money total is the exact sum of
\* duration / 3600000 * rate, kept as its numerator over MillisPerHour.
GroupStage(matched) ==
    [p \in {time_windows[w].projectId : w \in matched} |->
        LET group == {w \in matched : time_windows[w].projectId = p}
            duration == [w \in group |-> time_windows[w].end - time_windows[w].start]
            income == [w \in group |-> duration[w] * IfNull(time_windows[w].billRate, 0)]
            costs == [w \in group |-> duration[w] * IfNull(time_windows[w].payRate, 0)]
        IN [totalTimeMillis |-> Sum(duration, group),
            totalIncome |-> Sum(income, group),
            totalCosts |-> Sum(costs, group)]]

\* the $project stage; income and costs, rounded to 2 places, in hundredths:
\* the total n / MillisPerHour is n / (MillisPerHour / 100) hundredths
ProjectStage(groups) ==
    {[id |-> p,
      time |-> groups[p].totalTimeMillis,
      income |-> Round(groups[p].totalIncome, MillisPerHour \div 100),
      costs |-> Round(groups[p].totalCosts, MillisPerHour \div 100)] : p \in DOMAIN groups}

\* start, end: milliseconds; the three filters are Optional. aggregate is
\* the list the pipeline yields; iterating it with `async for` raises.
get_project_time_analytics(start, end, employee_id, project_id, task_id) ==
    /\ last' = [op |-> "get_project_time_analytics", start |-> start, end |-> end,
                employee_id |-> employee_id, project_id |-> project_id,
                task_id |-> task_id,
                aggregate |-> ProjectStage(GroupStage(
                    MatchStage(start, end, employee_id, project_id, task_id))),
                result |-> TypeError]
    /\ UNCHANGED <<employees, projects, tasks, time_windows, inflight, uuid>>

\* the $match stage of the task-time pipeline, without the task id
TaskTimeMatch_EmployeeOnly(employee_id, task_id) ==
    {w \in DOMAIN time_windows : time_windows[w].employeeId = employee_id}

\* the $match stage of the task-time pipeline: both ids, no time range
TaskTimeMatch(employee_id, task_id) ==
    {w \in DOMAIN time_windows :
        /\ time_windows[w].employeeId = employee_id
        /\ time_windows[w].taskId = task_id}

\* the $group stage with _id None: one document when a window matched,
\* and no document otherwise
TaskTimeGroup(matched) ==
    LET duration == [w \in matched |-> time_windows[w].end - time_windows[w].start]
    IN IF matched = {} THEN <<>>
       ELSE <<[totalTimeMillis |-> Sum(duration, matched)]>>

\* the TaskTime returned: 0 when the pipeline yields nothing
get_task_time_for_employee(employee_id, task_id) ==
    /\ LET result == TaskTimeGroup(TaskTimeMatch(employee_id, task_id))
       IN last' = [op |-> "get_task_time_for_employee", result |-> Ok,
                   employeeId |-> employee_id, taskId |-> task_id,
                   totalTimeMillis |-> IF result = <<>> THEN 0
                                       ELSE result[1].totalTimeMillis]
    /\ UNCHANGED <<employees, projects, tasks, time_windows, inflight, uuid>>

\* ---------------------------------------------------------------- inputs
\* the requests of an administrator who gives each new employee the next
\* unused address, or repeats one already taken
EmployeeCreates == [email : {EmailNames[i] : i \in 1..(uuid.employees + 1)}]

ProjectName == "n"

ProjectCreates(payrolls) ==
    [employees : SUBSET EmployeeIds, payroll : payrolls, name : {ProjectName}]

\* a ProjectUpdate whose set fields are fs; a field that is not set is None
ProjectUpdateOf(fs, emps, pay, arch) ==
    [fields_set |-> fs,
     archived |-> IF "archived" \in fs THEN Some(arch) ELSE None,
     name |-> IF "name" \in fs THEN Some(ProjectName) ELSE None,
     employees |-> IF "employees" \in fs THEN Some(emps) ELSE None,
     payroll |-> IF "payroll" \in fs THEN Some(pay) ELSE None]

ProjectUpdates(fields, payrolls) ==
    {ProjectUpdateOf(fs, emps, pay, arch) :
        fs \in SUBSET fields, emps \in SUBSET EmployeeIds, pay \in payrolls,
        arch \in BOOLEAN}

\* ---------------------------------------------------------------- Spec
\* employees and projects, requests about membership
Next ==
    \/ \E employee_in \in EmployeeCreates : create_employee(employee_in)
    \/ \E employee_id \in EmployeeIds : deactivate_employee(employee_id)
    \/ \E project_in \in ProjectCreates(PlainPayrolls) : create_project(project_in)
    \/ \E project_id \in ProjectIds,
          project_in \in ProjectUpdates({"employees", "payroll"}, PlainPayrolls) :
          update_project(project_id, project_in)
    \/ \E project_id \in ProjectIds : delete_project(project_id)

Spec == Init /\ [][Next]_vars

\* employees and projects, requests with payroll
NextPay ==
    \/ \E employee_in \in EmployeeCreates : create_employee(employee_in)
    \/ \E employee_id \in EmployeeIds : deactivate_employee(employee_id)
    \/ \E project_in \in ProjectCreates(KeyedPayrolls) : create_project(project_in)
    \/ \E project_id \in ProjectIds,
          project_in \in ProjectUpdates({"employees", "payroll"}, KeyedPayrolls) :
          update_project(project_id, project_in)
    \/ \E project_id \in ProjectIds : delete_project(project_id)

SpecPay == Init /\ [][NextPay]_vars

\* the payroll validator on its own
NextPayroll ==
    \E payroll \in {None} \cup {Some(p) : p \in AllPayrolls},
       assigned_employee_ids \in SUBSET EmployeeIds :
       validate_payroll(payroll, assigned_employee_ids)

SpecPayroll == Init /\ [][NextPayroll]_vars

\* an EmployeeUpdate that is empty or sets the email to an address
EmployeeUpdates ==
    {[fields_set |-> fs, email |-> IF "email" \in fs THEN Some(a) ELSE None] :
        fs \in SUBSET {"email"}, a \in {EmailNames[i] : i \in 1..(MaxEmployees + 2)}}

\* employees created and updated
NextEmail ==
    \/ \E employee_in \in EmployeeCreates : create_employee(employee_in)
    \/ \E employee_id \in EmployeeIds, employee_in \in EmployeeUpdates :
          update_employee(employee_id, employee_in)

SpecEmail == Init /\ [][NextEmail]_vars

\* the id lists the callers pass: an employee is added or removed, not both
SyncLists ==
    {ids \in [added : SUBSET EmployeeIds, removed : SUBSET EmployeeIds] :
        ids.added \cap ids.removed = {}}

\* the synchronizer on its own, over the employees stored so far
NextSync ==
    \/ \E employee_in \in EmployeeCreates : create_employee(employee_in)
    \/ \E project_id \in {ProjectNames[1], ProjectNames[2]}, ids \in SyncLists :
          sync_employee_projects(project_id, ids.added, ids.removed)

SpecSync == Init /\ [][NextSync]_vars

\* employees, projects and tasks
TaskName == "n"

TaskCreates == [projectId : ProjectIds, employees : SUBSET EmployeeIds, name : {TaskName}]

TaskUpdateOf(fs, pid, emps) ==
    [fields_set |-> fs,
     name |-> IF "name" \in fs THEN Some(TaskName) ELSE None,
     projectId |-> IF "projectId" \in fs THEN Some(pid) ELSE None,
     employees |-> IF "employees" \in fs THEN Some(emps) ELSE None]

TaskUpdates ==
    {TaskUpdateOf(fs, pid, emps) :
        fs \in SUBSET {"name", "projectId", "employees"},
        pid \in ProjectIds, emps \in SUBSET EmployeeIds}

NextTask ==
    \/ \E employee_in \in EmployeeCreates : create_employee(employee_in)
    \/ \E employee_id \in EmployeeIds : deactivate_employee(employee_id)
    \/ \E project_in \in ProjectCreates(PlainPayrolls) : create_project(project_in)
    \/ \E project_id \in ProjectIds,
          project_in \in ProjectUpdates({"employees"}, PlainPayrolls) :
          update_project(project_id, project_in)
    \/ \E task_in \in TaskCreates : create_task(task_in)
    \/ \E task_id \in TaskIds, task_in \in TaskUpdates : update_task(task_id, task_in)
    \/ \E task_id \in TaskIds : delete_task(task_id)

SpecTask == Init /\ [][NextTask]_vars

\* the employee of the first account
Submitter == EmployeeNames[1]

\* the employees that are not deactivated
ActiveEmployees == {e \in DOMAIN employees : ~employees[e].deactivated_at}

\* project and task requests that list nobody, or every active employee
CrewProjects ==
    [employees : {{}, ActiveEmployees}, payroll : PlainPayrolls, name : {ProjectName}]

CrewTasks ==
    [projectId : ProjectIds, employees : {{}, ActiveEmployees}, name : {TaskName}]

\* task patches of projectId and employees: nobody, or every stored employee
CrewTaskUpdates ==
    {TaskUpdateOf(fs, pid, emps) :
        fs \in SUBSET {"projectId", "employees"},
        pid \in ProjectIds, emps \in {{}, DOMAIN employees}}

\* tasks that are patched while employees leave their projects
NextTaskUpdate ==
    \/ \E employee_in \in EmployeeCreates : create_employee(employee_in)
    \/ \E employee_id \in EmployeeIds : deactivate_employee(employee_id)
    \/ \E project_in \in CrewProjects : create_project(project_in)
    \/ \E task_in \in CrewTasks : create_task(task_in)
    \/ \E task_id \in TaskIds, task_in \in CrewTaskUpdates : update_task(task_id, task_in)

SpecTaskUpdate == Init /\ [][NextTaskUpdate]_vars

\* submissions: the instants of a request, for each project and task id
WindowCreates(times) ==
    {[start |-> t.start, end |-> t.end, timezoneOffset |-> t.timezoneOffset,
      projectId |-> p, taskId |-> k] : t \in times, p \in ProjectIds, k \in TaskIds}

\* the instants of a submission that is about assignment only
PlainTimes == {[start |-> 0, end |-> 0, timezoneOffset |-> 0]}

\* the Submitter's time windows, while the Submitter is deactivated,
\* projects are archived, and projects and tasks list them or not
NextWindow ==
    \/ \E employee_in \in EmployeeCreates : create_employee(employee_in)
    \/ deactivate_employee(Submitter)
    \/ \E project_in \in CrewProjects : create_project(project_in)
    \/ \E project_id \in ProjectIds,
          project_in \in ProjectUpdates({"archived"}, PlainPayrolls) :
          update_project(project_id, project_in)
    \/ \E task_in \in CrewTasks : create_task(task_in)
    \/ \E window_in \in WindowCreates(PlainTimes) :
          add_time_window(window_in, Submitter)

SpecWindow == Init /\ [][NextWindow]_vars

\* a time window submission that runs while other requests are served:
\* the requests of the other actions may run between two of its awaits
NextRace ==
    \/ \E employee_in \in EmployeeCreates : create_employee(employee_in)
    \/ \E project_in \in ProjectCreates(PlainPayrolls) : create_project(project_in)
    \/ \E project_id \in ProjectIds,
          project_in \in ProjectUpdates({"archived"}, PlainPayrolls) :
          update_project(project_id, project_in)
    \/ \E task_in \in TaskCreates : create_task(task_in)
    \/ \E window_in \in WindowCreates(PlainTimes), employee_id \in EmployeeIds :
          add_time_window_get_employee(window_in, employee_id)
    \/ add_time_window_get_project
    \/ add_time_window_get_task
    \/ add_time_window_insert_one

SpecRace == Init /\ [][NextRace]_vars

\* the updates of a project's membership
MemberUpdates ==
    {ProjectUpdateOf({"employees"}, emps, <<>>, FALSE) : emps \in SUBSET EmployeeIds}

\* an update_project that runs while other requests are served: the
\* requests of the other actions, a second update_project among them, may
\* run between two of its awaits
NextUpdateRace ==
    \/ \E employee_in \in EmployeeCreates : create_employee(employee_in)
    \/ \E project_in \in ProjectCreates(PlainPayrolls) : create_project(project_in)
    \/ \E project_id \in ProjectIds, project_in \in MemberUpdates :
          update_project(project_id, project_in)
    \/ \E project_id \in ProjectIds, project_in \in MemberUpdates :
          update_project_get_project(project_id, project_in)
    \/ update_project_validate_active_employees
    \/ update_project_sync_employee_projects
    \/ update_project_update_one

SpecUpdateRace == Init /\ [][NextUpdateRace]_vars

\* the instants of the submissions of one employee: a start, an end before
\* or after it, and an offset
TranslateTimes == [start : {1000000}, end : {0, 2000000}, timezoneOffset : {0, 60}]

\* a project request that lists every stored employee
StaffedProjects ==
    [employees : {DOMAIN employees}, payroll : PlainPayrolls, name : {ProjectName}]

\* a task request that lists every member of its project
StaffedTasks ==
    {[projectId |-> p, employees |-> projects[p].employees, name |-> TaskName] :
        p \in DOMAIN projects}

\* fully staffed projects and tasks, and the Submitter's time windows
NextTranslate ==
    \/ \E employee_in \in EmployeeCreates : create_employee(employee_in)
    \/ \E project_in \in StaffedProjects : create_project(project_in)
    \/ \E task_in \in StaffedTasks : create_task(task_in)
    \/ \E window_in \in WindowCreates(TranslateTimes) :
          add_time_window(window_in, Submitter)

SpecTranslate == Init /\ [][NextTranslate]_vars

\* the windows of a report: two that last an hour, one of 180 ms, and one
\* submitted with an offset
ReportTimes ==
    {[start |-> 0, end |-> 3600000, timezoneOffset |-> 0],
     [start |-> 3600000, end |-> 7200000, timezoneOffset |-> 0],
     [start |-> 0, end |-> 180, timezoneOffset |-> 0],
     [start |-> 0, end |-> 3600000, timezoneOffset |-> 60]}

\* a TimeWindowUpdate that sets the rates in fs
RateUpdates ==
    {[fields_set |-> fs,
      billRate |-> IF "billRate" \in fs THEN Some(100) ELSE None,
      payRate |-> IF "payRate" \in fs THEN Some(60) ELSE None] :
        fs \in SUBSET {"billRate", "payRate"}}

\* the range of a report: from 0 to the end of the first or second hour
ReportRanges == [start : {0}, end : {3600000, 7200000}]

Optional(S) == {None} \cup {Some(x) : x \in S}

\* the Submitter's time windows, the rates set on them, and the reports
NextReport ==
    \/ \E employee_in \in EmployeeCreates : create_employee(employee_in)
    \/ \E project_in \in StaffedProjects : create_project(project_in)
    \/ \E task_in \in StaffedTasks : create_task(task_in)
    \/ \E window_in \in WindowCreates(ReportTimes) :
          add_time_window(window_in, Submitter)
    \/ \E update_data \in RateUpdates, employee_id \in Optional({Submitter}),
          project_id \in Optional(ProjectIds) :
          update_time_windows(update_data, employee_id, project_id)
    \/ \E range \in ReportRanges, employee_id \in Optional(EmployeeIds),
          project_id \in Optional(ProjectIds), task_id \in Optional(TaskIds) :
          get_project_time_analytics(range.start, range.end,
                                     employee_id, project_id, task_id)

SpecReport == Init /\ [][NextReport]_vars

\* the windows of a task-time query: a short one and a long one
TaskTimeWindows ==
    {[start |-> 1000, end |-> 2000, timezoneOffset |-> 0],
     [start |-> 0, end |-> 5000, timezoneOffset |-> 0]}

\* the employees who submit time windows: the Submitter and a colleague
Submitters == {Submitter, EmployeeNames[2]}

\* the time windows of the Submitters, and the task-time queries
NextTaskTime ==
    \/ \E employee_in \in EmployeeCreates : create_employee(employee_in)
    \/ \E project_in \in StaffedProjects : create_project(project_in)
    \/ \E task_in \in StaffedTasks : create_task(task_in)
    \/ \E window_in \in WindowCreates(TaskTimeWindows), employee_id \in Submitters :
          add_time_window(window_in, employee_id)
    \/ \E employee_id \in Submitters, task_id \in (TaskIds \cup {"none"}) :
          get_task_time_for_employee(employee_id, task_id)

SpecTaskTime == Init /\ [][NextTaskTime]_vars

\* a TimeWindowUpdate that is empty or sets the bill rate
BulkUpdates ==
    {[fields_set |-> fs,
      billRate |-> IF "billRate" \in fs THEN Some(100) ELSE None,
      payRate |-> None] : fs \in {{}, {"billRate"}}}

\* a project request that lists the Submitters
BulkProjects ==
    [employees : {Submitters}, payroll : PlainPayrolls, name : {ProjectName}]

\* the time windows of the Submitters, and the bulk updates of their rates
NextBulk ==
    \/ \E employee_in \in EmployeeCreates : create_employee(employee_in)
    \/ \E project_in \in BulkProjects : create_project(project_in)
    \/ \E task_in \in StaffedTasks : create_task(task_in)
    \/ \E window_in \in WindowCreates(PlainTimes), employee_id \in Submitters :
          add_time_window(window_in, employee_id)
    \/ \E update_data \in BulkUpdates, employee_id \in Optional({Submitter}),
          project_id \in Optional(ProjectIds) :
          update_time_windows(update_data, employee_id, project_id)

SpecBulk == Init /\ [][NextBulk]_vars

\* the bodies of the submissions: the declared fields, alone or with rates
WindowBodies ==
    LET plain == WindowCreates(PlainTimes)
    IN plain \cup
       {[f \in DOMAIN w \cup {"billRate", "payRate"} |->
            IF f = "billRate" THEN Some(500)
            ELSE IF f = "payRate" THEN Some(300)
            ELSE w[f]] : w \in plain}

\* the Submitter's request bodies, and the bulk updates of the rates
NextSubmit ==
    \/ \E employee_in \in EmployeeCreates : create_employee(employee_in)
    \/ \E project_in \in BulkProjects : create_project(project_in)
    \/ \E task_in \in StaffedTasks : create_task(task_in)
    \/ \E body \in WindowBodies : submit_time_window(body, Submitter)
    \/ \E update_data \in BulkUpdates, employee_id \in Optional(Submitters),
          project_id \in Optional(ProjectIds) :
          update_time_windows(update_data, employee_id, project_id)

SpecSubmit == Init /\ [][NextSubmit]_vars

\* a patch of a project that is empty or archives it
ArchiveUpdates ==
    {ProjectUpdateOf(fs, {}, <<>>, TRUE) : fs \in SUBSET {"archived"}}

\* a patch of a task that is empty or names it
NameUpdates == {TaskUpdateOf(fs, ProjectNames[1], {}) : fs \in SUBSET {"name"}}

\* the four updates, with an empty patch or a patch of one field, on the
\* first project, task and employee, stored or not yet
NextPatch ==
    \/ \E employee_in \in EmployeeCreates : create_employee(employee_in)
    \/ \E project_in \in BulkProjects : create_project(project_in)
    \/ \E task_in \in StaffedTasks : create_task(task_in)
    \/ \E window_in \in WindowCreates(PlainTimes) :
          add_time_window(window_in, Submitter)
    \/ \E project_in \in ArchiveUpdates : update_project(ProjectNames[1], project_in)
    \/ \E task_in \in NameUpdates : update_task(TaskNames[1], task_in)
    \/ \E employee_in \in
            {[fields_set |-> fs,
              email |-> IF "email" \in fs THEN Some(EmailNames[1]) ELSE None] :
                fs \in SUBSET {"email"}} :
          update_employee(Submitter, employee_in)
    \/ \E update_data \in BulkUpdates, employee_id \in Optional({Submitter}) :
          update_time_windows(update_data, employee_id, None)

SpecPatch == Init /\ [][NextPatch]_vars

\* updates, deactivations and deletions by id, of documents that are
\* stored, not yet stored, or deleted
NextMissing ==
    \/ \E employee_in \in EmployeeCreates : create_employee(employee_in)
    \/ \E project_in \in BulkProjects : create_project(project_in)
    \/ \E task_in \in StaffedTasks : create_task(task_in)
    \/ \E project_id \in ProjectIds, project_in \in ArchiveUpdates :
          update_project(project_id, project_in)
    \/ \E task_id \in TaskIds, task_in \in NameUpdates : update_task(task_id, task_in)
    \/ \E employee_id \in EmployeeIds : deactivate_employee(employee_id)
    \/ \E project_id \in ProjectIds : delete_project(project_id)
    \/ \E task_id \in TaskIds : delete_task(task_id)

SpecMissing == Init /\ [][NextMissing]_vars

\* patches of a project over name and employees: a field is absent, present
\* with null, or present with a value
NullProjectUpdates ==
    {u \in [fields_set : SUBSET {"name", "employees"},
            name : Optional({"m"}), employees : Optional({{}, Submitters}),
            payroll : {None}, archived : {None}] :
        \A f \in {"name", "employees"} : f \notin u.fields_set => IsNone(u[f])}

\* patches of a task over name and employees, the same way
NullTaskUpdates ==
    {u \in [fields_set : SUBSET {"name", "employees"},
            name : Optional({"m"}), employees : Optional({{}, Submitters}),
            projectId : {None}] :
        \A f \in {"name", "employees"} : f \notin u.fields_set => IsNone(u[f])}

\* patches with absent, null and valued fields on the first project and task
NextNull ==
    \/ \E employee_in \in EmployeeCreates : create_employee(employee_in)
    \/ \E project_in \in BulkProjects : create_project(project_in)
    \/ \E task_in \in StaffedTasks : create_task(task_in)
    \/ \E project_in \in NullProjectUpdates : update_project(ProjectNames[1], project_in)
    \/ \E task_in \in NullTaskUpdates : update_task(TaskNames[1], task_in)

SpecNull == Init /\ [][NextNull]_vars

\* an update_project of the membership that runs while employees are
\* deactivated: a deactivation may run between two of its awaits
NextDeactivateRace ==
    \/ \E employee_in \in EmployeeCreates : create_employee(employee_in)
    \/ \E employee_id \in EmployeeIds : deactivate_employee(employee_id)
    \/ \E project_in \in ProjectCreates(PlainPayrolls) : create_project(project_in)
    \/ \E project_id \in ProjectIds, project_in \in MemberUpdates :
          update_project_get_project(project_id, project_in)
    \/ update_project_validate_active_employees
    \/ update_project_sync_employee_projects
    \/ update_project_update_one

SpecDeactivateRace == Init /\ [][NextDeactivateRace]_vars

\* invitations, activations and deactivations
NextActivate ==
    \/ \E employee_in \in EmployeeCreates : create_employee(employee_in)
    \/ \E password_data \in [token : EmployeeIds, password : {"pw"}] :
          activate_employee_account(password_data)
    \/ \E employee_id \in EmployeeIds : deactivate_employee(employee_id)

SpecActivate == Init /\ [][NextActivate]_vars

\* the requests about the Submitter, before and after the deactivation, and
\* the Submitter's time windows. A body of the update names an address, alone
\* or with a null deactivated_at (not set: FALSE); the reports are of one device.
NextPermanent ==
    \/ \E employee_in \in EmployeeCreates : create_employee(employee_in)
    \/ deactivate_employee(Submitter)
    \/ \E body \in
            {[fields_set |-> fs, email |-> Some(EmailNames[1]),
              deactivated_at |-> Some(FALSE)] :
                fs \in {{"email"}, {"email", "deactivated_at"}}} :
          update_employee_route(Submitter, body)
    \/ activate_employee_account([token |-> Submitter, password |-> "pw"])
    \/ \E permissions_in \in [computer : {"c1"}, permissions : {"authorized", "denied"}] :
          update_system_permissions(Submitter, permissions_in)
    \/ \E project_in \in BulkProjects : create_project(project_in)
    \/ \E project_in \in ArchiveUpdates : update_project(ProjectNames[1], project_in)
    \/ \E task_in \in StaffedTasks : create_task(task_in)
    \/ \E window_in \in WindowCreates(PlainTimes) :
          add_time_window(window_in, Submitter)

SpecPermanent == Init /\ [][NextPermanent]_vars

\* two devices of the Submitter report their permissions: a report may be served
\* between the two awaits of another
NextPermissions ==
    \/ \E employee_in \in EmployeeCreates : create_employee(employee_in)
    \/ \E permissions_in \in [computer : {"c1", "c2"},
                                permissions : {"authorized", "denied"}] :
          update_system_permissions(Submitter, permissions_in)
    \/ \E permissions_in \in [computer : {"c1", "c2"},
                                permissions : {"authorized", "denied"}] :
          update_system_permissions_get_employee(Submitter, permissions_in)
    \/ update_system_permissions_update_one

SpecPermissions == Init /\ [][NextPermissions]_vars

\* one project more than the bound, the tasks of their members, and the
\* time windows of the Submitters
NextCross ==
    \/ \E employee_in \in EmployeeCreates : create_employee(employee_in)
    \/ \E project_in \in ProjectCreates(PlainPayrolls) :
          create_project_up_to(MaxProjects + 1, project_in)
    \/ \E task_in \in StaffedTasks : create_task(task_in)
    \/ \E window_in \in
            {[start |-> 0, end |-> 0, timezoneOffset |-> 0, projectId |-> p, taskId |-> k] :
                p \in DOMAIN projects, k \in DOMAIN tasks},
          employee_id \in Submitters :
          add_time_window(window_in, employee_id)

SpecCross == Init /\ [][NextCross]_vars

\* ================================================================ claims
Count(list, x) == Cardinality({i \in 1..Len(list) : list[i] = x})

\* C1: between calls, for every stored employee E and project P, P.id is in
\* E.projects if and only if E.id is in P.employees.
C1_BidirectionalConsistency ==
    \A E \in DOMAIN employees, P \in DOMAIN projects :
        (P \in Range(employees[E].projects)) <=> (E \in projects[P].employees)

\* C2: between calls, every key of a stored project's payroll other than '*'
\* is an id of that project's employees list.
C2_PayrollKeysAreMembers ==
    \A P \in DOMAIN projects :
        \A k \in DOMAIN projects[P].payroll :
            k # Wildcard => k \in projects[P].employees

\* C3: between calls, every stored task's employees are employees of the
\* project its projectId names.
C3_TaskMembersAreProjectMembers ==
    \A T \in DOMAIN tasks :
        tasks[T].projectId \in DOMAIN projects
            => tasks[T].employees \subseteq projects[tasks[T].projectId].employees

\* C4: a deactivated employee has an empty projects list, from the return of
\* deactivate_employee on.
C4_DeactivatedHasNoProjects ==
    \A E \in DOMAIN employees :
        employees[E].deactivated_at => employees[E].projects = <<>>

\* C5: when deactivate_employee(E) has returned the employee, no project's
\* employees list contains E.
C5_DeactivatedInNoProject ==
    (last.op = "deactivate_employee" /\ last.result = Ok)
        => \A P \in DOMAIN projects : last.id \notin projects[P].employees

\* C6: when create_project has returned the new project, every employee of
\* the request's membership has the new project's id in projects, exactly once.
C6_CreateProjectLinksEmployees ==
    (last.op = "create_project" /\ last.result = Ok)
        => /\ projects[last.id].employees = last.project_in.employees
           /\ \A E \in last.project_in.employees :
                 /\ E \in DOMAIN employees
                 /\ Count(employees[E].projects, last.id) = 1

C6_Witness ==
    /\ last.op = "create_project"
    /\ last.result = Ok
    /\ Cardinality(last.project_in.employees) >= 2

\* C7: a successful update_project(P) with an employees list takes every
\* stored member E the list omits out of P.employees and P out of E.projects;
\* a stored member the list keeps, with P in projects, still has P in projects.
C7_UpdateRemovesMembership ==
    [][ (last'.op = "update_project" /\ last'.result = Ok
            /\ ~IsNone(last'.project_in.employees))
        => LET P == last'.id
               new == last'.project_in.employees.v
           IN \A E \in projects[P].employees :
                IF E \notin new
                  THEN /\ P \notin Range(employees'[E].projects)
                       /\ E \notin projects'[P].employees
                  ELSE /\ E \in projects'[P].employees
                       /\ P \in Range(employees[E].projects)
                             => P \in Range(employees'[E].projects) ]_vars

C7_Witness ==
    /\ last.op = "update_project"
    /\ last.result = Ok
    /\ last.removed # {}
    /\ \E E \in projects[last.id].employees :
          E \notin last.added /\ last.id \in Range(employees[E].projects)

\* C8: when delete_project(P) has returned true, no employee has P in projects.
C8_DeletedProjectUnlinked ==
    (last.op = "delete_project" /\ last.result = True)
        => \A E \in DOMAIN employees : last.id \notin Range(employees[E].projects)

\* C9: _validate_payroll raises exactly when the payroll is present and has a
\* key other than '*' that is not in the given list.
C9_PayrollValidation ==
    last.op = "_validate_payroll"
        => ((last.result = ErrPayroll)
              <=> (/\ ~IsNone(last.payroll)
                   /\ \E k \in DOMAIN last.payroll.v :
                         k # Wildcard /\ k \notin last.assigned_employee_ids))

C9_Witness ==
    /\ last.op = "_validate_payroll"
    /\ last.result = ErrPayroll
    /\ Wildcard \in DOMAIN last.payroll.v

\* C10: an update_project with payroll and employees is rejected for its
\* payroll exactly when a key other than '*' is outside the request's
\* employees; with payroll only, exactly when one is outside the stored list.
C10_PayrollAgainstFinalList ==
    (last.op = "update_project" /\ last.result # NotFound
        /\ ~IsNone(last.project_in.payroll))
        => LET project_in == last.project_in
               keys == DOMAIN project_in.payroll.v \ {Wildcard}
               stored == projects[last.id]
           IN /\ IF ~IsNone(project_in.employees)
                   THEN last.result # ErrInactive
                          => ((last.result = ErrPayroll)
                                <=> \E k \in keys : k \notin project_in.employees.v)
                   ELSE (last.result = ErrPayroll)
                          <=> \E k \in keys : k \notin stored.employees
              /\ last.result \in {Ok, ErrPayroll, ErrInactive}
              /\ last.result = Ok => stored.payroll = project_in.payroll.v

C10_Witness ==
    /\ last.op = "update_project"
    /\ last.result = Ok
    /\ ~IsNone(last.project_in.payroll)
    /\ ~IsNone(last.project_in.employees)
    /\ \E k \in DOMAIN last.project_in.payroll.v : k \in last.added

\* the state a patch asks for: its set fields over the stored document
MergedField(doc, patch, f) == IF f \in patch.fields_set THEN patch[f].v ELSE doc[f]

\* C11: update_task fails and writes nothing whenever the employees list of
\* the merged state (stored task with the patch applied) contains an id that
\* is not a member of the merged projectId's project, whichever of projectId
\* and employees the patch supplies.
C11_UpdateTaskValidatesMerged ==
    [][(last'.op = "update_task" /\ last'.result # NotFound) =>
         LET T == tasks[last'.id]
             project_id == MergedField(T, last'.task_in, "projectId")
             employee_ids == MergedField(T, last'.task_in, "employees")
         IN (/\ project_id \in DOMAIN projects
             /\ \E e \in employee_ids : e \notin projects[project_id].employees)
            => /\ last'.result = ErrTaskEmployee
               /\ UNCHANGED <<employees, projects, tasks>>]_vars

\* a patch of projectId alone was refused for a stored employee of the task
C11_Witness ==
    /\ last.op = "update_task"
    /\ last.result = ErrTaskEmployee
    /\ last.task_in.fields_set = {"projectId"}

\* C12: a create_task or update_task whose (merged) projectId names no
\* stored project is answered with a NotFound outcome (404), a different
\* outcome from the one for a task employee outside an existing project,
\* and writes no task.
C12_MissingProjectIsNotFound ==
    /\ (last.op = "create_task" /\ last.task_in.projectId \notin DOMAIN projects)
         => /\ add_task(last.result) = HTTP_404_NOT_FOUND
            /\ add_task(last.result) # add_task(ErrTaskEmployee)
    /\ (last.op = "update_task" /\ last.result # NotFound
            /\ MergedField(tasks[last.id], last.task_in, "projectId") \notin DOMAIN projects)
         => /\ task_router_update_task(last.result) = HTTP_404_NOT_FOUND
            /\ task_router_update_task(last.result) # task_router_update_task(ErrTaskEmployee)

\* C13: add_time_window reports the first violation in the order (1) employee
\* missing or deactivated, (2) project missing or archived, (3) employee not
\* a project member, (4) task missing, (5) employee not a task member, and
\* succeeds only if none of the five holds.
C13_ValidationOrder ==
    last.op = "add_time_window" =>
        LET e == last.employee_id
            p == last.window_in.projectId
            t == last.window_in.taskId
        IN last.result =
             IF e \notin DOMAIN employees \/ employees[e].deactivated_at
               THEN ErrEmployeeNotActive
             ELSE IF p \notin DOMAIN projects \/ projects[p].archived
               THEN ErrProjectArchived
             ELSE IF e \notin projects[p].employees THEN ErrNotInProject
             ELSE IF t \notin DOMAIN tasks THEN ErrNoTask
             ELSE IF e \notin tasks[t].employees THEN ErrNotInTask
             ELSE Ok

\* violations (2), (3) and (4) or (5) held together and (2) was reported
C13_Witness ==
    /\ last.op = "add_time_window"
    /\ last.result = ErrProjectArchived
    /\ last.window_in.projectId \in DOMAIN projects
    /\ projects[last.window_in.projectId].archived
    /\ last.employee_id \notin projects[last.window_in.projectId].employees
    /\ \/ last.window_in.taskId \notin DOMAIN tasks
       \/ last.employee_id \notin tasks[last.window_in.taskId].employees

\* C14: an add_time_window that fails validation writes nothing: the
\* time_windows collection and every other collection are unchanged.
C14_FailedSubmissionWritesNothing ==
    [][(last'.op = "add_time_window" /\ last'.result # Ok) =>
         UNCHANGED <<employees, projects, tasks, time_windows>>]_vars

\* a submission was refused because the employee is not on the project
C14_Witness ==
    /\ last.op = "add_time_window"
    /\ last.result = ErrNotInProject

\* C15: under any interleaving of requests, no time window of a project P is
\* inserted in a state where P.archived is true.
C15_ArchivedAcceptsNoWindow ==
    [][\A w \in DOMAIN time_windows' \ DOMAIN time_windows :
          LET P == time_windows'[w].projectId
          IN P \in DOMAIN projects => ~projects[P].archived]_vars

C17_EndNotBeforeStart ==
    \A w \in DOMAIN time_windows :
        /\ time_windows[w].endTranslated >= time_windows[w].startTranslated
        /\ time_windows[w].end >= time_windows[w].start

\* the windows a report call selected, and those among them of project P
Selected == MatchStage(last.start, last.end, last.employee_id, last.project_id,
                       last.task_id)
SelectedOf(P) == {w \in Selected : time_windows[w].projectId = P}

\* per window: its duration, and its amounts as numerators over MillisPerHour
Duration == [w \in DOMAIN time_windows |-> time_windows[w].end - time_windows[w].start]
BillAmount ==
    [w \in DOMAIN time_windows |->
        Duration[w] * (IF IsNone(time_windows[w].billRate) THEN 0
                       ELSE time_windows[w].billRate.v)]
PayAmount ==
    [w \in DOMAIN time_windows |->
        Duration[w] * (IF IsNone(time_windows[w].payRate) THEN 0
                       ELSE time_windows[w].payRate.v)]

\* h hundredths is n / MillisPerHour rounded to 2 decimal places
IsRound2(h, n) ==
    /\ 2 * (h * (MillisPerHour \div 100) - n) <= MillisPerHour \div 100
    /\ 2 * (n - h * (MillisPerHour \div 100)) <= MillisPerHour \div 100

\* C18: the project-time report selects a time window exactly when its
\* translated start is >= rangeStart, its translated end is <= rangeEnd and
\* it equals every supplied employeeId / projectId / taskId filter.
C18_SelectsByCanonicalInterval ==
    last.op = "get_project_time_analytics" =>
        Selected =
          {w \in DOMAIN time_windows :
              /\ time_windows[w].startTranslated >= last.start
              /\ time_windows[w].endTranslated <= last.end
              /\ IsNone(last.employee_id)
                    \/ time_windows[w].employeeId = last.employee_id.v
              /\ IsNone(last.project_id)
                    \/ time_windows[w].projectId = last.project_id.v
              /\ IsNone(last.task_id)
                    \/ time_windows[w].taskId = last.task_id.v}

\* C19: get_project_time_analytics returns a list with exactly one entry per
\* project id that has a selected window, with time the sum of end - start,
\* income the sum of duration / 3,600,000 * billRate (a missing billRate
\* counting as 0) and costs the same with payRate.
C19_ProjectTimeReport ==
    last.op = "get_project_time_analytics" =>
        /\ last.result = Ok
        /\ {doc.id : doc \in last.aggregate} =
              {time_windows[w].projectId : w \in Selected}
        /\ \A doc \in last.aggregate :
              /\ \A other \in last.aggregate : other.id = doc.id => other = doc
              /\ doc.time = Sum(Duration, SelectedOf(doc.id))
              /\ IsRound2(doc.income, Sum(BillAmount, SelectedOf(doc.id)))
              /\ IsRound2(doc.costs, Sum(PayAmount, SelectedOf(doc.id)))

\* C20: the reported income and costs of a project are the per-project sum
\* rounded to 2 decimal places once, not the sum of the rounded amounts of
\* its windows.
C20_RoundedOncePerProject ==
    last.op = "get_project_time_analytics" =>
        /\ last.result = Ok
        /\ \A doc \in last.aggregate :
              /\ doc.income = Round(Sum(BillAmount, SelectedOf(doc.id)),
                                    MillisPerHour \div 100)
              /\ doc.costs = Round(Sum(PayAmount, SelectedOf(doc.id)),
                                   MillisPerHour \div 100)

\* C21: get_task_time_for_employee(employeeId, taskId) returns totalTimeMillis
\* equal to the sum of end - start over all stored windows whose employeeId
\* and taskId both match, with no time-range filter; when no window matches
\* it returns totalTimeMillis 0 and never an error or a not-found result.
C21_TaskTimeIsSumOfMatching ==
    last.op = "get_task_time_for_employee" =>
        /\ last.result = Ok
        /\ last.totalTimeMillis =
              Sum(Duration, {w \in DOMAIN time_windows :
                                /\ time_windows[w].employeeId = last.employeeId
                                /\ time_windows[w].taskId = last.taskId})

\* a query answered with the time of one window of two: the other window is
\* of the same employee's colleague or of another task
C21_Witness ==
    /\ last.op = "get_task_time_for_employee"
    /\ last.totalTimeMillis > 0
    /\ \E w \in DOMAIN time_windows :
          \/ time_windows[w].employeeId # last.employeeId
          \/ time_windows[w].taskId # last.taskId

\* C22: update_time_windows called with neither employee_id nor project_id
\* fails with a validation error and modifies no time window, whatever the
\* patch.
C22_NoFilterIsRefused ==
    [][(/\ last'.op = "update_time_windows"
        /\ IsNone(last'.employee_id)
        /\ IsNone(last'.project_id))
       => /\ last'.result = ErrNoFilter
          /\ time_windows' = time_windows]_vars

\* a non-empty patch without a filter, refused while windows are stored
C22_Witness ==
    /\ last.op = "update_time_windows"
    /\ IsNone(last.employee_id) /\ IsNone(last.project_id)
    /\ last.update_data.fields_set # {}
    /\ last.result = ErrNoFilter
    /\ time_windows # <<>>

\* the windows that match every filter supplied to the last bulk update
Filtered ==
    {w \in DOMAIN time_windows :
        /\ (~IsNone(last.employee_id) => time_windows[w].employeeId = last.employee_id.v)
        /\ (~IsNone(last.project_id) => time_windows[w].projectId = last.project_id.v)}

\* C23: update_time_windows with at least one filter and a non-empty patch
\* changes only the patched fields of the windows that match every supplied
\* filter, leaves every other window and every unpatched field unchanged,
\* and returns the number of windows it modified.
C23_BulkUpdateFrame ==
    [][(/\ last'.op = "update_time_windows"
        /\ ~(IsNone(last'.employee_id) /\ IsNone(last'.project_id))
        /\ last'.update_data.fields_set # {})
       => /\ last'.result = Ok
          /\ DOMAIN time_windows' = DOMAIN time_windows
          /\ \A w \in DOMAIN time_windows :
                IF w \in Filtered'
                  THEN \A f \in DOMAIN time_windows[w] :
                          time_windows'[w][f] =
                             IF f \in last'.update_data.fields_set
                               THEN last'.update_data[f]
                             ELSE time_windows[w][f]
                ELSE time_windows'[w] = time_windows[w]
          /\ last'.modified_count =
                Cardinality({w \in DOMAIN time_windows :
                                time_windows'[w] # time_windows[w]})]_vars

\* a bulk update that changed one window and passed over another
C23_Witness ==
    /\ last.op = "update_time_windows"
    /\ last.result = Ok
    /\ last.modified_count = 1
    /\ Filtered # {}
    /\ DOMAIN time_windows \ Filtered # {}

\* C24: _sync_employee_projects called with an empty added list and an empty
\* removed list is a no-op: no employee document is modified.
C24_EmptySyncIsNoOp ==
    [][(/\ last'.op = "_sync_employee_projects"
        /\ last'.added_ids = {}
        /\ last'.removed_ids = {})
       => employees' = employees]_vars

\* an empty call made while an employee lists a project
C24_Witness ==
    /\ last.op = "_sync_employee_projects"
    /\ last.added_ids = {}
    /\ last.removed_ids = {}
    /\ \E e \in DOMAIN employees : employees[e].projects # <<>>

\* C30: _sync_employee_projects has set semantics and is idempotent: a second
\* call with the same arguments changes nothing; after a call the projects
\* list of an added employee holds project_id exactly once, also when it
\* held it before, and that of a removed employee holds it zero times;
\* employees in neither list are unchanged.
C30_SyncIsIdempotentSet ==
    [][last'.op = "_sync_employee_projects"
       => /\ SyncEmployeeProjects(employees', last'.project_id, last'.added_ids,
                                  last'.removed_ids) = employees'
          /\ DOMAIN employees' = DOMAIN employees
          /\ \A e \in DOMAIN employees :
                /\ e \in last'.added_ids =>
                      Count(employees'[e].projects, last'.project_id) = 1
                /\ e \in last'.removed_ids =>
                      Count(employees'[e].projects, last'.project_id) = 0
                /\ e \notin (last'.added_ids \cup last'.removed_ids) =>
                      employees'[e] = employees[e]]_vars

\* a call that added the project to one stored employee and removed it from
\* another, each of whom lists a second project
C30_Witness ==
    /\ last.op = "_sync_employee_projects"
    /\ \E a \in last.added_ids \cap DOMAIN employees :
          /\ Count(employees[a].projects, last.project_id) = 1
          /\ Len(employees[a].projects) = 2
    /\ \E r \in last.removed_ids \cap DOMAIN employees :
          /\ Count(employees[r].projects, last.project_id) = 0
          /\ Len(employees[r].projects) = 1

\* C25: deactivate_employee on an employee whose deactivated_at is already
\* set fails with a Conflict outcome and changes nothing: the employee's
\* deactivated_at and every project's employees list are unchanged.
C25_RepeatedDeactivationConflicts ==
    [][(/\ last'.op = "deactivate_employee"
        /\ last'.id \in DOMAIN employees
        /\ employees[last'.id].deactivated_at)
       => /\ last'.result = ErrAlreadyDeactivated
          /\ deactivate_employee_route(last'.result) = HTTP_409_CONFLICT
          /\ employees' = employees
          /\ projects' = projects]_vars

\* a second deactivation refused while a project is stored
C25_Witness ==
    /\ last.op = "deactivate_employee"
    /\ last.result = ErrAlreadyDeactivated
    /\ employees[last.id].deactivated_at
    /\ projects # <<>>

\* C26: write requests pass all their validators before the store is
\* mutated: when create_project, update_project, create_task or update_task
\* fails with a validation error (inactive or unknown employee, payroll key
\* outside the membership, task employee outside the project, empty patch),
\* no document of projects, employees or tasks has been modified by the call.
C26_ValidatorsBeforeWrites ==
    [][(/\ last'.op \in {"create_project", "update_project",
                         "create_task", "update_task"}
        /\ last'.result \in {ErrInactive, ErrPayroll, ErrTaskEmployee,
                             ErrNoProject, ErrNoData})
       => /\ employees' = employees
          /\ projects' = projects
          /\ tasks' = tasks]_vars

\* C27: in create_project, update_project, delete_project and
\* deactivate_employee the write to the primary entity (the project
\* insert, update or delete; the employee's deactivation) is committed
\* before any cascade write to the dependent collection (employees'
\* projects lists; projects' employees lists) is issued.
C27_PrimaryWriteFirst ==
    last.op \in {"create_project", "update_project", "delete_project",
                 "deactivate_employee"} =>
        LET primary == IF last.op = "deactivate_employee" THEN "employees"
                       ELSE "projects"
        IN \A i, j \in 1..Len(last.writes) :
              (last.writes[i] = primary /\ last.writes[j] # primary) => i < j

\* C28: when two update_project requests that change the membership of one
\* project run interleaved and both complete, the final state is that of
\* the request whose project write came last: the project's employees list
\* is that request's list, and every employee's projects set agrees with it
\* (P.id in E.projects iff E in P.employees).
C28_LastWriterWins ==
    (/\ inflight = None
     /\ last.op = "update_project"
     /\ last.result = Ok
     /\ ~IsNone(last.project_in.employees)
     /\ last.id \in DOMAIN projects)
    => /\ projects[last.id].employees = last.project_in.employees.v
       /\ \A e \in DOMAIN employees :
             e \in projects[last.id].employees
                <=> last.id \in Range(employees[e].projects)

\* C29: employee email is unique: in every reachable state, under any
\* sequence of create_employee and update_employee calls, no two stored
\* employee documents have the same email.
C29_EmailUnique ==
    \A e1, e2 \in DOMAIN employees :
        e1 # e2 => employees[e1].email # employees[e2].email

\* the rate fields of a stored window
RateFields == {"billRate", "payRate"}

\* C31: a window created by add_time_window has its rates unset, whatever
\* the submitting employee sends; a window has a rate set only if an
\* update_time_windows call whose filter matched it set that field.
C31_RatesSetByBulkUpdateOnly ==
    [][\A w \in DOMAIN time_windows', f \in RateFields :
          (/\ ~IsNone(time_windows'[w][f])
           /\ (w \in DOMAIN time_windows => IsNone(time_windows[w][f])))
          => /\ w \in DOMAIN time_windows
             /\ last'.op = "update_time_windows"
             /\ f \in last'.update_data.fields_set
             /\ Matches(last'.employee_id, time_windows[w].employeeId)
             /\ Matches(last'.project_id, time_windows[w].projectId)]_vars

\* a submission accepted and stored with both rates unset
C31_Witness ==
    /\ last.op = "add_time_window"
    /\ last.result = Ok
    /\ \E w \in DOMAIN time_windows :
          /\ IsNone(time_windows[w].billRate)
          /\ IsNone(time_windows[w].payRate)

\* the patch of the last update, and whether its target was stored before
LastPatch ==
    IF last.op = "update_project" THEN last.project_in
    ELSE IF last.op = "update_task" THEN last.task_in
    ELSE IF last.op = "update_employee" THEN last.employee_in
    ELSE last.update_data

Updates == {"update_project", "update_task", "update_employee", "update_time_windows"}

ValidationErrors ==
    {ErrNoData, ErrNoFilter, ErrNoProject, ErrTaskEmployee, ErrInactive, ErrPayroll}

\* C32 as stated: update_project, update_task, update_employee and
\* update_time_windows called with a patch that sets no field fail with a
\* validation error and modify no document in any collection.
C32_EmptyPatchIsValidationError ==
    [][(last'.op \in Updates /\ LastPatch'.fields_set = {})
       => /\ last'.result \in ValidationErrors
          /\ UNCHANGED <<employees, projects, tasks, time_windows>>]_vars

\* C32 amended: an update with a patch that sets no field modifies no
\* document in any collection; it fails with a validation error, except
\* that update_project and update_task on an id with no stored document
\* return the not-found result.
C32_EmptyPatchHasNoEffect ==
    [][(last'.op \in Updates /\ LastPatch'.fields_set = {})
       => /\ UNCHANGED <<employees, projects, tasks, time_windows>>
          /\ IF last'.op = "update_project" /\ last'.id \notin DOMAIN projects
               THEN last'.result = NotFound
             ELSE IF last'.op = "update_task" /\ last'.id \notin DOMAIN tasks
               THEN last'.result = NotFound
             ELSE last'.result \in ValidationErrors]_vars

\* an empty patch refused for a stored project
C32_Witness ==
    /\ last.op = "update_project"
    /\ last.project_in.fields_set = {}
    /\ last.id \in DOMAIN projects
    /\ last.result = ErrNoData

\* C33: update_project, update_task and deactivate_employee on an id with
\* no stored document return the not-found result without modifying any
\* project, task or employee document; delete_project and delete_task on
\* such an id return false and modify nothing.
C33_MissingTargetWritesNothing ==
    [][LET missing ==
             \/ last'.op \in {"update_project", "delete_project"}
                   /\ last'.id \notin DOMAIN projects
             \/ last'.op \in {"update_task", "delete_task"}
                   /\ last'.id \notin DOMAIN tasks
             \/ last'.op = "deactivate_employee" /\ last'.id \notin DOMAIN employees
       IN missing =>
             /\ last'.result = IF last'.op \in {"delete_project", "delete_task"}
                                 THEN False ELSE NotFound
             /\ UNCHANGED <<employees, projects, tasks, time_windows>>]_vars

\* a deactivation of an id that is not stored, while another employee is
C33_Witness ==
    /\ last.op = "deactivate_employee"
    /\ last.id \notin DOMAIN employees
    /\ last.result = NotFound
    /\ employees # <<>>

\* C34: patch merge rule: in update_project and update_task a field that is
\* absent from the patch, or present in it with value null, leaves the stored
\* value unchanged; a null employees field never replaces the membership list
\* of a project or a task.
C34_AbsentOrNullLeavesStored ==
    [][/\ (/\ last'.op = "update_project"
            /\ last'.id \in DOMAIN projects
           => \A f \in {"name", "employees"} :
                 IsNone(last'.project_in[f])
                    => projects'[last'.id][f] = projects[last'.id][f])
       /\ (/\ last'.op = "update_task"
            /\ last'.id \in DOMAIN tasks
           => \A f \in {"name", "employees"} :
                 IsNone(last'.task_in[f])
                    => tasks'[last'.id][f] = tasks[last'.id][f])]_vars

\* C35: no project lists a deactivated employee: in every state with no
\* request in flight, after any create_project, update_project and
\* deactivate_employee calls, those that ended in an error included, no
\* project's employees list contains the id of an employee whose
\* deactivated_at is set.
C35_NoProjectListsDeactivated ==
    IsNone(inflight)
        => \A P \in DOMAIN projects, E \in DOMAIN employees :
              employees[E].deactivated_at => E \notin projects[P].employees

\* C36: every stored time window is attached to a task of its own project:
\* when add_time_window inserts a window W, the task named by W.taskId has
\* projectId equal to W.projectId at the time of the insert.
C36_WindowTaskInWindowProject ==
    [][(/\ last'.op = "add_time_window"
        /\ last'.result = Ok
        /\ time_windows' # time_windows)
       => /\ last'.window_in.taskId \in DOMAIN tasks
          /\ tasks[last'.window_in.taskId].projectId = last'.window_in.projectId]_vars

\* C37: active and deactivated are mutually exclusive: after any sequence of
\* create_employee, activate_employee_account and deactivate_employee calls,
\* no employee has is_active true together with deactivated_at set.
C37_ActiveXorDeactivated ==
    \A E \in DOMAIN employees :
        ~(employees[E].is_active /\ employees[E].deactivated_at)

\* C38: deactivation is permanent: once an employee's deactivated_at is set,
\* no operation of the services (update_employee, activate_employee_account,
\* update_system_permissions, project or task operations) clears it, and
\* every later add_time_window for that employee is rejected at validation
\* step 1 and stores nothing.
C38_DeactivationIsPermanent ==
    [][/\ \A E \in DOMAIN employees :
             employees[E].deactivated_at
                => E \in DOMAIN employees' /\ employees'[E].deactivated_at
       /\ (/\ last'.op = "add_time_window"
            /\ last'.employee_id \in DOMAIN employees
            /\ employees[last'.employee_id].deactivated_at)
           => /\ last'.result = ErrEmployeeNotActive
              /\ time_windows' = time_windows]_vars

\* a submission rejected at step 1 for an employee who was deactivated and
\* whose account was activated afterwards
C38_Witness ==
    /\ last.op = "add_time_window"
    /\ last.result = ErrEmployeeNotActive
    /\ last.employee_id \in DOMAIN employees
    /\ employees[last.employee_id].deactivated_at
    /\ employees[last.employee_id].is_active

\* C39: every stored task has an existing parent: after any sequence of
\* completed create_task, update_task and delete_project calls, each stored
\* task's projectId names a stored project.
C39_TaskHasStoredProject ==
    IsNone(inflight) => \A T \in DOMAIN tasks : tasks[T].projectId \in DOMAIN projects

\* C40: one system-permission record per device: after any sequence or
\* interleaving of update_system_permissions calls for one employee, the
\* employee's systemPermissions list holds at most one record per computer
\* value, and the record for a computer is the one written by the last
\* completed call for that computer.
C40_OneRecordPerComputer ==
    IsNone(inflight)
        => /\ \A E \in DOMAIN employees :
                 \A i, j \in 1..Len(employees[E].systemPermissions) :
                    employees[E].systemPermissions[i].computer
                        = employees[E].systemPermissions[j].computer => i = j
           /\ (last.op = "update_system_permissions" /\ last.result = Ok)
               => \A i \in 1..Len(employees[last.id].systemPermissions) :
                     employees[last.id].systemPermissions[i].computer
                         = last.permissions_in.computer
                       => employees[last.id].systemPermissions[i] = last.permissions_in

====
